---- MODULE Spec2Model ----
(***************************************************************************)
(* Model of src/guid.rs: the Guid value type, its constructors (zeroed,    *)
(* from_values, from_signature), its Debug formatter and its parser        *)
(* (From<&str>) with the HexReader helper.                                 *)
(*                                                                         *)
(* Strings are sequences of bytes (0..255).  u8 and u16 values are         *)
(* naturals; a u32 value is a pair of 16-bit limbs [hi, lo] because the    *)
(* model checker's integers are 32-bit signed.                             *)
(***************************************************************************)
EXTENDS Naturals, Sequences, FiniteSets

VARIABLES g, sig, digest, text, edits, parsed, echo, op

vars == <<g, sig, digest, text, edits, parsed, echo, op>>

----------------------------------------------------------------------------
(* Machine integers *)

Pow2(n) == 2 ^ n

U32(hi, lo) == [hi |-> hi, lo |-> lo]

\* `x as u32` for a value that fits 16 bits (u8 or u16 widening)
AsU32(n) == U32(0, n)

\* u32::to_be_bytes
to_be_bytes(x) == <<x.hi \div 256, x.hi % 256, x.lo \div 256, x.lo % 256>>

\* u16::from_be_bytes
from_be_bytes(b) == b[1] * 256 + b[2]

\* Bit i of a natural below 2^16.
Bit(a, i) == (a \div Pow2(i)) % 2

RECURSIVE SumBits(_, _)
SumBits(bits, i) ==
    IF i = 16 THEN 0 ELSE bits[i] * Pow2(i) + SumBits(bits, i + 1)

\* a & b and a | b on values below 2^16
BitAnd(a, b) == SumBits([i \in 0..15 |-> Bit(a, i) * Bit(b, i)], 0)

BitOr(a, b) ==
    SumBits([i \in 0..15 |-> IF Bit(a, i) = 1 \/ Bit(b, i) = 1 THEN 1 ELSE 0], 0)

\* A value of an arithmetic expression together with the fact that some step
\* of it left its integer width (a panic in a debug build, a wrap-around or
\* lost bits in a release build).
Num(v) == [v |-> v, ovf |-> FALSE]

Add(w, x, y) ==
    [v |-> (x.v + y.v) % Pow2(w), ovf |-> x.ovf \/ y.ovf \/ x.v + y.v >= Pow2(w)]

Mul(w, x, k) ==
    [v |-> (x.v * k) % Pow2(w), ovf |-> x.ovf \/ x.v * k >= Pow2(w)]

Shl(w, x, n) ==
    [v |-> (x.v * Pow2(n)) % Pow2(w), ovf |-> x.ovf \/ x.v * Pow2(n) >= Pow2(w)]

Sub(w, x, y) ==
    [v |-> (x.v + Pow2(w) - y.v) % Pow2(w), ovf |-> x.ovf \/ y.ovf \/ x.v < y.v]

\* Addition, multiplication and shift at width 32, on limbs.
Add32(x, y) ==
    LET lo == x.v.lo + y.v.lo
        hi == x.v.hi + y.v.hi + lo \div 65536
    IN  [v |-> U32(hi % 65536, lo % 65536), ovf |-> x.ovf \/ y.ovf \/ hi >= 65536]

Mul32(x, k) ==
    LET lo == x.v.lo * k
        hi == x.v.hi * k + lo \div 65536
    IN  [v |-> U32(hi % 65536, lo % 65536), ovf |-> x.ovf \/ hi >= 65536]

\* x << n for n < 32: whole limbs first, then the remaining bits.
Shl32(x, n) ==
    IF n >= 16
    THEN Mul32([v |-> U32(x.v.lo, 0), ovf |-> x.ovf \/ x.v.hi # 0], Pow2(n - 16))
    ELSE Mul32(x, Pow2(n))

----------------------------------------------------------------------------
(* Characters *)

Hyphen == 45
Ch0 == 48
Ch9 == 57
ChA == 65
ChF == 70
Cha == 97
Chf == 102

----------------------------------------------------------------------------
(* struct Guid and its constructors *)

Guid(data1, data2, data3, data4) ==
    [data1 |-> data1, data2 |-> data2, data3 |-> data3, data4 |-> data4]

zeroed == Guid(U32(0, 0), 0, 0, <<0, 0, 0, 0, 0, 0, 0, 0>>)

from_values(data1, data2, data3, data4) == Guid(data1, data2, data3, data4)

\* from_signature with the version bits written as 4 instead of 5
from_signature_Version4(signature, unused, hash) ==
    LET first  == IF 0 < Len(signature) THEN signature[1] ELSE unused
        second == to_be_bytes(hash[2])
        raw3   == from_be_bytes(<<second[3], second[4]>>)
        data3  == BitOr(BitAnd(raw3, 4095), 4 * Pow2(12))
        third  == to_be_bytes(hash[3])
        fourth == to_be_bytes(hash[4])
    IN  from_values(AsU32(first),
                    from_be_bytes(<<second[1], second[2]>>),
                    data3,
                    <<BitOr(BitAnd(third[1], 63), 128), third[2], third[3], third[4],
                      fourth[1], fourth[2], fourth[3], fourth[4]>>)

\* from_signature with data1 taken from the first digest word
from_signature_HashedData1(signature, unused, hash) ==
    LET second == to_be_bytes(hash[2])
        raw3   == from_be_bytes(<<second[3], second[4]>>)
        data3  == BitOr(BitAnd(raw3, 4095), 5 * Pow2(12))
        third  == to_be_bytes(hash[3])
        fourth == to_be_bytes(hash[4])
    IN  from_values(hash[1],
                    from_be_bytes(<<second[1], second[2]>>),
                    data3,
                    <<BitOr(BitAnd(third[1], 63), 128), third[2], third[3], third[4],
                      fourth[1], fourth[2], fourth[3], fourth[4]>>)

\* from_signature reading hash[2], hash[3], hash[4] instead of hash[1] .. hash[3]
from_signature_NextWords(signature, unused, hash) ==
    LET first  == IF 0 < Len(signature) THEN signature[1] ELSE unused
        second == to_be_bytes(hash[3])
        raw3   == from_be_bytes(<<second[3], second[4]>>)
        data3  == BitOr(BitAnd(raw3, 4095), 5 * Pow2(12))
        third  == to_be_bytes(hash[4])
        fourth == to_be_bytes(hash[5])
    IN  from_values(AsU32(first),
                    from_be_bytes(<<second[1], second[2]>>),
                    data3,
                    <<BitOr(BitAnd(third[1], 63), 128), third[2], third[3], third[4],
                      fourth[1], fourth[2], fourth[3], fourth[4]>>)

\* ConstString::get(index): the byte at index; `unused` is the content of the
\* string's capacity beyond its length, read when index is not below the length.
get(signature, index, unused) ==
    IF index < Len(signature) THEN signature[index + 1] ELSE unused

\* `hash` is const_sha1::sha1(&data).data for data = namespace || signature:
\* five u32 words, hash[0] .. hash[4] in the source, hash[1] .. hash[5] here.
from_signature(signature, unused, hash) ==
    LET first  == get(signature, 0, unused)
        second == to_be_bytes(hash[2])
        raw3   == from_be_bytes(<<second[3], second[4]>>)
        data3  == BitOr(BitAnd(raw3, 4095), 5 * Pow2(12))
        third  == to_be_bytes(hash[3])
        fourth == to_be_bytes(hash[4])
    IN  from_values(AsU32(first),
                    from_be_bytes(<<second[1], second[2]>>),
                    data3,
                    <<BitOr(BitAnd(third[1], 63), 128), third[2], third[3], third[4],
                      fourth[1], fourth[2], fourth[3], fourth[4]>>)

----------------------------------------------------------------------------
(* impl Debug for Guid *)

\* The digit as {:x} writes it
UpperHexDigit_Lower(d) == IF d < 10 THEN Ch0 + d ELSE Cha + (d - 10)

\* One upper-case hexadecimal digit.
UpperHexDigit(d) == IF d < 10 THEN Ch0 + d ELSE ChA + (d - 10)

\* The number of hexadecimal digits of a natural below 2^16 (1 for zero).
HexLen(n) == IF n < 16 THEN 1 ELSE IF n < 256 THEN 2 ELSE IF n < 4096 THEN 3 ELSE 4

\* The width without the 0 flag: spaces on the left
ZeroPad_Spaces(s, width) ==
    IF Len(s) >= width THEN s ELSE [i \in 1..(width - Len(s)) |-> 32] \o s

\* The 0<width> flag: zeros on the left up to a minimum width.
ZeroPad(s, width) ==
    IF Len(s) >= width THEN s ELSE [i \in 1..(width - Len(s)) |-> Ch0] \o s

\* {:X} of a natural below 2^16: no leading zeros, "0" for zero.
UpperHex(n) ==
    [i \in 1..HexLen(n) |-> UpperHexDigit((n \div 16 ^ (HexLen(n) - i)) % 16)]

\* {:X} of a u32: the digits of the high limb, if any, then all four of the low.
UpperHex32(x) ==
    IF x.hi = 0 THEN UpperHex(x.lo)
    ELSE UpperHex(x.hi) \o ZeroPad(UpperHex(x.lo), 4)

fmt(self) ==
    ZeroPad(UpperHex32(self.data1), 8) \o <<Hyphen>>
        \o ZeroPad(UpperHex(self.data2), 4) \o <<Hyphen>>
        \o ZeroPad(UpperHex(self.data3), 4) \o <<Hyphen>>
        \o ZeroPad(UpperHex(self.data4[1]), 2)
        \o ZeroPad(UpperHex(self.data4[2]), 2) \o <<Hyphen>>
        \o ZeroPad(UpperHex(self.data4[3]), 2)
        \o ZeroPad(UpperHex(self.data4[4]), 2)
        \o ZeroPad(UpperHex(self.data4[5]), 2)
        \o ZeroPad(UpperHex(self.data4[6]), 2)
        \o ZeroPad(UpperHex(self.data4[7]), 2)
        \o ZeroPad(UpperHex(self.data4[8]), 2)

----------------------------------------------------------------------------
(* trait HexReader for std::str::Bytes *)

\* The messages of the panics, and the absence of one.
NoPanic == "none"
InvalidGuid == "Invalid GUID string"
UnwrapNone == "called Option::unwrap() on a None value"

\* The iterator over value.bytes(): the index of the next byte, and the panic
\* the thread has ended with, if any (after which nothing more is executed).
Bytes(pos, panic) == [pos |-> pos, panic |-> panic]

\* Iterator::next followed by unwrap(): the next byte, or a panic at the end.
next_unwrap(s, self) ==
    IF self.panic # NoPanic THEN [r |-> self, value |-> 0]
    ELSE IF self.pos >= Len(s) THEN [r |-> Bytes(self.pos, UnwrapNone), value |-> 0]
    ELSE [r |-> Bytes(self.pos + 1, NoPanic), value |-> s[self.pos + 1]]

\* next_u8 with b'a'..=b'g' as its third range
next_u8_AcceptG(s, self) ==
    LET x == next_unwrap(s, self)
        value == x.value
    IN  IF x.r.panic # NoPanic THEN [r |-> x.r, n |-> Num(0)]
        ELSE IF value >= Ch0 /\ value <= Ch9
            THEN [r |-> x.r, n |-> Sub(8, Num(value), Num(Ch0))]
        ELSE IF value >= ChA /\ value <= ChF
            THEN [r |-> x.r, n |-> Sub(8, Add(8, Num(10), Num(value)), Num(ChA))]
        ELSE IF value >= Cha /\ value <= Chf + 1
            THEN [r |-> x.r, n |-> Sub(8, Add(8, Num(10), Num(value)), Num(Cha))]
        ELSE [r |-> Bytes(x.r.pos, InvalidGuid), n |-> Num(0)]

\* next_u8 with value - b'a' for the lower-case letters
next_u8_LowerFromZero(s, self) ==
    LET x == next_unwrap(s, self)
        value == x.value
    IN  IF x.r.panic # NoPanic THEN [r |-> x.r, n |-> Num(0)]
        ELSE IF value >= Ch0 /\ value <= Ch9
            THEN [r |-> x.r, n |-> Sub(8, Num(value), Num(Ch0))]
        ELSE IF value >= ChA /\ value <= ChF
            THEN [r |-> x.r, n |-> Sub(8, Add(8, Num(10), Num(value)), Num(ChA))]
        ELSE IF value >= Cha /\ value <= Chf
            THEN [r |-> x.r, n |-> Sub(8, Num(value), Num(Cha))]
        ELSE [r |-> Bytes(x.r.pos, InvalidGuid), n |-> Num(0)]

next_u8(s, self) ==
    LET x == next_unwrap(s, self)
        value == x.value
    IN  IF x.r.panic # NoPanic THEN [r |-> x.r, n |-> Num(0)]
        ELSE IF value >= Ch0 /\ value <= Ch9
            THEN [r |-> x.r, n |-> Sub(8, Num(value), Num(Ch0))]
        ELSE IF value >= ChA /\ value <= ChF
            THEN [r |-> x.r, n |-> Sub(8, Add(8, Num(10), Num(value)), Num(ChA))]
        ELSE IF value >= Cha /\ value <= Chf
            THEN [r |-> x.r, n |-> Sub(8, Add(8, Num(10), Num(value)), Num(Cha))]
        ELSE [r |-> Bytes(x.r.pos, InvalidGuid), n |-> Num(0)]

next_u16(s, self) == next_u8(s, self)

next_u32(s, self) ==
    LET x == next_u8(s, self)
    IN  [r |-> x.r, n |-> [v |-> AsU32(x.n.v), ovf |-> x.n.ovf]]

----------------------------------------------------------------------------
(* impl From<&str> for Guid *)

\* The length check as value.len() >= 36
assert_len_AtLeast(value) == Len(value) >= 36

\* assert!(value.len() == 36, ...)
assert_len(value) == Len(value) = 36

\* assert!(bytes.next().unwrap() == b'-', ...)
assert_hyphen(s, self) ==
    LET x == next_unwrap(s, self)
    IN  IF x.r.panic # NoPanic THEN x.r
        ELSE IF x.value = Hyphen THEN x.r
        ELSE Bytes(x.r.pos, InvalidGuid)

\* The first two bytes of data1 shifted by 16 and 24 instead of 24 and 16
assemble_u32_Swapped(n1, n2, n3, n4, n5, n6, n7, n8) ==
    Add32(Add32(Add32(Add32(Shl32(Add32(Mul32(n1, 16), n2), 16),
                            Shl32(Add32(Mul32(n3, 16), n4), 24)),
                      Shl32(Add32(Mul32(n5, 16), n6), 8)),
                Mul32(n7, 16)),
          n8)

\* The 16-bit groups assembled from next_u8 values, at width 8
assemble_u16_Narrow(n1, n2, n3, n4) ==
    Add(8, Add(8, Shl(8, Add(8, Mul(8, n1, 16), n2), 8), Mul(8, n3, 16)), n4)

\* let a = ((n1 * 16 + n2) << 24) + ((n3 * 16 + n4) << 16)
\*       + ((n5 * 16 + n6) << 8) + n7 * 16 + n8;      (u32)
assemble_u32(n1, n2, n3, n4, n5, n6, n7, n8) ==
    Add32(Add32(Add32(Add32(Shl32(Add32(Mul32(n1, 16), n2), 24),
                            Shl32(Add32(Mul32(n3, 16), n4), 16)),
                      Shl32(Add32(Mul32(n5, 16), n6), 8)),
                Mul32(n7, 16)),
          n8)

\* let b = ((n1 * 16 + n2) << 8) + n3 * 16 + n4;      (u16)
assemble_u16(n1, n2, n3, n4) ==
    Add(16, Add(16, Shl(16, Add(16, Mul(16, n1, 16), n2), 8), Mul(16, n3, 16)), n4)

\* let d = n1 * 16 + n2;                              (u8)
assemble_u8(n1, n2) == Add(8, Mul(8, n1, 16), n2)

\* The value returned when the call panics: no Guid.
NoGuid == <<>>

\* The calls From::from makes on the iterator, in the order of execution:
\* eight next_u32, the hyphen assert, four next_u16, the assert, four
\* next_u16, the assert, four next_u8, the assert, twelve next_u8.
Calls ==
    [i \in 1..8 |-> "next_u32"] \o <<"hyphen">>
        \o [i \in 1..4 |-> "next_u16"] \o <<"hyphen">>
        \o [i \in 1..4 |-> "next_u16"] \o <<"hyphen">>
        \o [i \in 1..4 |-> "next_u8"] \o <<"hyphen">>
        \o [i \in 1..12 |-> "next_u8"]

Call(s, self, name) ==
    CASE name = "next_u32" -> next_u32(s, self)
      [] name = "next_u16" -> next_u16(s, self)
      [] name = "next_u8"  -> next_u8(s, self)
      [] name = "hyphen"   -> [r |-> assert_hyphen(s, self), n |-> Num(0)]

\* The calls from the k-th on, made on the iterator `self`; `out` holds the
\* values the earlier calls returned.
RECURSIVE Run(_, _, _, _)
Run(s, self, k, out) ==
    IF k > Len(Calls) THEN [r |-> self, out |-> out]
    ELSE LET x == Call(s, self, Calls[k])
         IN  IF x.r.panic # NoPanic THEN [r |-> x.r, out |-> out]
             ELSE Run(s, x.r, k + 1, Append(out, x.n))

From(value) ==
    LET run == IF assert_len(value) THEN Run(value, Bytes(0, NoPanic), 1, <<>>)
               ELSE [r |-> Bytes(0, InvalidGuid), out |-> <<>>]
        n   == run.out
        a   == assemble_u32(n[1], n[2], n[3], n[4], n[5], n[6], n[7], n[8])
        b   == assemble_u16(n[10], n[11], n[12], n[13])
        c   == assemble_u16(n[15], n[16], n[17], n[18])
        d   == assemble_u8(n[20], n[21])
        e   == assemble_u8(n[22], n[23])
        f   == assemble_u8(n[25], n[26])
        gg  == assemble_u8(n[27], n[28])
        h   == assemble_u8(n[29], n[30])
        i   == assemble_u8(n[31], n[32])
        j   == assemble_u8(n[33], n[34])
        k   == assemble_u8(n[35], n[36])
    IN  IF run.r.panic # NoPanic
        THEN [ok |-> FALSE, guid |-> NoGuid, pos |-> run.r.pos, ovf |-> FALSE,
              panic |-> run.r.panic]
        ELSE [ok   |-> TRUE,
              panic |-> NoPanic,
              guid |-> from_values(a.v, b.v, c.v,
                                   <<d.v, e.v, f.v, gg.v, h.v, i.v, j.v, k.v>>),
              pos  |-> run.r.pos,
              ovf  |-> a.ovf \/ b.ovf \/ c.ovf \/ d.ovf \/ e.ovf \/ f.ovf
                          \/ gg.ovf \/ h.ovf \/ i.ovf \/ j.ovf \/ k.ovf]

----------------------------------------------------------------------------
(* The state machine: a caller constructs a Guid, formats it, hands a string *)
(* (the formatted text, possibly altered) to the parser and formats the      *)
(* parsed Guid again.  A Guid is an immutable value, so each behaviour       *)
(* follows one Guid from its construction.  Spec follows a few Guids through *)
(* every alteration of their texts; ValueSpec follows the Guids of every     *)
(* constructor, from_signature included, through their unaltered texts.      *)

\* Largest number of alterations of a formatted text.
MaxEdits == 1

\* Values of the four fields, for from_values:
\*   data1  00000000 FFFFFFFF 01234567 89ABCDEF 0000000A 80000000
\*   data2  0000 FFFF 89AB 000C         data3  0000 FFFF CDEF 0D00
\*   data4  0000-000000000000 FFFF-FFFFFFFFFFFF 000F-F0FF1AB23CD4 FEDC-BA9876543210
Data1Values == {U32(0, 0), U32(65535, 65535), U32(291, 17767), U32(35243, 52719),
                U32(0, 10), U32(32768, 0)}
Data2Values == {0, 65535, 35243, 12}
Data3Values == {0, 65535, 52719, 3328}
Data4Values == {<<0, 0, 0, 0, 0, 0, 0, 0>>,
                <<255, 255, 255, 255, 255, 255, 255, 255>>,
                <<0, 15, 240, 255, 26, 178, 60, 212>>,
                <<254, 220, 186, 152, 118, 84, 50, 16>>}

\* The Guids whose texts the caller alters before parsing:
\*   01234567-89AB-CDEF-000F-F0FF1AB23CD4, FFFFFFFF-FFFF-FFFF-FFFF-FFFFFFFFFFFF,
\*   0000000A-000C-0D00-FEDC-BA9876543210, 80000000-8000-0001-7F80-0000000000E0
GuidValues ==
    {<<U32(291, 17767), 35243, 52719, <<0, 15, 240, 255, 26, 178, 60, 212>>>>,
     <<U32(65535, 65535), 65535, 65535, <<255, 255, 255, 255, 255, 255, 255, 255>>>>,
     <<U32(0, 10), 12, 3328, <<254, 220, 186, 152, 118, 84, 50, 16>>>>,
     <<U32(32768, 0), 32768, 1, <<127, 128, 0, 0, 0, 0, 0, 224>>>>}

\* Signatures: empty, "g16", the single byte 0xFF, and "pinterface(".
Signatures == {<<>>, <<103, 49, 54>>, <<255>>,
               <<112, 105, 110, 116, 101, 114, 102, 97, 99, 101, 40>>}

\* Digests the hash may return, as five words: the bytes 00 01 02 .. 13,
\* DEADBEEF CAFEF00D FFEEDDCC 01234567 89ABCDEF, and the SHA-1 digests of the
\* namespace followed by each of the four signatures above.
Digests ==
    {<<U32(1, 515), U32(1029, 1543), U32(2057, 2571), U32(3085, 3599), U32(4113, 4627)>>,
     <<U32(57005, 48879), U32(51966, 61453), U32(65518, 56780), U32(291, 17767),
       U32(35243, 52719)>>,
     <<U32(22964, 30586), U32(30702, 12874), U32(30371, 26903), U32(44729, 21242),
       U32(6628, 1117)>>,
     <<U32(57107, 65144), U32(41825, 65507), U32(23669, 50525), U32(29170, 30519),
       U32(54412, 5248)>>,
     <<U32(36513, 7424), U32(31267, 36594), U32(30526, 3992), U32(22426, 12222),
       U32(40829, 8543)>>,
     <<U32(42824, 62961), U32(37394, 27062), U32(64369, 19336), U32(2009, 20411),
       U32(55545, 14425)>>}

\* What the unused capacity of a ConstString may hold.
UnusedBytes == {0, 255}

\* Bytes a caller may put into a string: - f / : G g
EditBytes == {45, 102, 47, 58, 71, 103}

NoDigest == <<>>
NotParsed ==
    [ok |-> FALSE, guid |-> NoGuid, pos |-> 0, ovf |-> FALSE, panic |-> NoPanic,
     done |-> FALSE]
Parsed(r) ==
    [ok |-> r.ok, guid |-> r.guid, pos |-> r.pos, ovf |-> r.ovf, panic |-> r.panic,
     done |-> TRUE]

Init ==
    /\ g = NoGuid
    /\ sig = <<>>
    /\ digest = NoDigest
    /\ text = <<>>
    /\ edits = 0
    /\ parsed = NotParsed
    /\ echo = <<>>
    /\ op = "start"

Zeroed ==
    /\ op = "start"
    /\ g' = zeroed
    /\ op' = "zeroed"
    /\ UNCHANGED <<sig, digest, text, edits, parsed, echo>>

FromValues ==
    /\ op = "start"
    /\ \E v \in GuidValues : g' = from_values(v[1], v[2], v[3], v[4])
    /\ op' = "from_values"
    /\ UNCHANGED <<sig, digest, text, edits, parsed, echo>>

\* from_values on every combination of the field values
FromFields ==
    /\ op = "start"
    /\ \E d1 \in Data1Values, d2 \in Data2Values, d3 \in Data3Values,
          d4 \in Data4Values :
           g' = from_values(d1, d2, d3, d4)
    /\ op' = "from_values"
    /\ UNCHANGED <<sig, digest, text, edits, parsed, echo>>

FromSignature ==
    /\ op = "start"
    /\ \E s \in Signatures, u \in UnusedBytes, h \in Digests :
           /\ g' = from_signature(s, u, h)
           /\ sig' = s
           /\ digest' = h
    /\ op' = "from_signature"
    /\ UNCHANGED <<text, edits, parsed, echo>>

Fmt ==
    /\ g # NoGuid
    /\ op # "fmt"
    /\ ~parsed.done
    /\ text' = fmt(g)
    /\ edits' = 0
    /\ op' = "fmt"
    /\ UNCHANGED <<g, sig, digest, parsed, echo>>

Edited(t) ==
    /\ edits < MaxEdits
    /\ ~parsed.done
    /\ text' = t
    /\ edits' = edits + 1
    /\ op' = "edit"
    /\ UNCHANGED <<g, sig, digest, parsed, echo>>

\* The caller replaces one byte of the string.
SetByte ==
    \E i \in 1..Len(text), c \in EditBytes :
        /\ text[i] # c
        /\ Edited([text EXCEPT ![i] = c])

\* The caller turns one upper-case hex letter into lower case.
LowerCase ==
    \E i \in 1..Len(text) :
        /\ text[i] >= ChA /\ text[i] <= ChF
        /\ Edited([text EXCEPT ![i] = @ + 32])

\* The caller drops the last byte of the string.
Truncate ==
    /\ Len(text) > 0
    /\ Edited(SubSeq(text, 1, Len(text) - 1))

\* The caller appends one byte to the string.
Append1 ==
    \E c \in EditBytes : Edited(text \o <<c>>)

\* Guid::from(text)
Parse ==
    /\ ~parsed.done
    /\ parsed' = Parsed(From(text))
    /\ op' = "from"
    /\ UNCHANGED <<g, sig, digest, text, edits, echo>>

\* format!("{:?}", Guid::from(text))
FmtParsed ==
    /\ parsed.done /\ parsed.ok
    /\ echo = <<>>
    /\ echo' = fmt(parsed.guid)
    /\ op' = "fmt_parsed"
    /\ UNCHANGED <<g, sig, digest, text, edits, parsed>>

Next ==
    \/ Zeroed
    \/ FromValues
    \/ Fmt
    \/ SetByte
    \/ LowerCase
    \/ Truncate
    \/ Append1
    \/ Parse
    \/ FmtParsed

Spec == Init /\ [][Next]_vars

\* The Guids of every constructor, formatted and parsed back unaltered.
ValueNext ==
    \/ Zeroed
    \/ FromFields
    \/ FromSignature
    \/ Fmt
    \/ Parse
    \/ FmtParsed

ValueSpec == Init /\ [][ValueNext]_vars

----------------------------------------------------------------------------
(* Vocabulary of the properties, defined without the operators above *)

\* 0-based indices of the separators in the canonical text
SeparatorIndices == {8, 13, 18, 23}

IsHexByte(c) == c \in (48..57) \cup (65..70) \cup (97..102)

\* s is a well-formed GUID text: 36 bytes, hyphens at the separator indices,
\* hexadecimal digits everywhere else.
WellFormed(s) ==
    /\ Len(s) = 36
    /\ \A i \in 0..35 :
          IF i \in SeparatorIndices THEN s[i + 1] = 45 ELSE IsHexByte(s[i + 1])

\* The value of one hexadecimal digit.
HexDigitValue(c) == IF c <= 57 THEN c - 48 ELSE IF c <= 70 THEN c - 55 ELSE c - 87

\* The value of the two / four digits of s that start at 0-based index i,
\* most significant digit first.
Hex2(s, i) == HexDigitValue(s[i + 1]) * 16 + HexDigitValue(s[i + 2])
Hex4(s, i) == Hex2(s, i) * 256 + Hex2(s, i + 2)

\* The Guid a well-formed text denotes.
Denoted(s) ==
    [data1 |-> [hi |-> Hex4(s, 0), lo |-> Hex4(s, 4)],
     data2 |-> Hex4(s, 9),
     data3 |-> Hex4(s, 14),
     data4 |-> <<Hex2(s, 19), Hex2(s, 21), Hex2(s, 24), Hex2(s, 26),
                 Hex2(s, 28), Hex2(s, 30), Hex2(s, 32), Hex2(s, 34)>>]

\* s with its hex letters a-f replaced by A-F
ToUpper(s) == [i \in 1..Len(s) |-> IF s[i] \in 97..102 THEN s[i] - 32 ELSE s[i]]

\* text is the output of the formatter for g, unaltered.
Formatted == g # NoGuid /\ edits = 0 /\ text # <<>>

\* The parser has run on text.
Returned == parsed.done /\ parsed.ok /\ ~parsed.ovf

SameFields(x, y) ==
    /\ x.data1 = y.data1
    /\ x.data2 = y.data2
    /\ x.data3 = y.data3
    /\ x.data4 = y.data4

\* g was made by from_signature from sig and digest.
Derived == g # NoGuid /\ digest # NoDigest

\* The four bytes of a digest word, most significant first.
WordBytes(w) == <<w.hi \div 256, w.hi % 256, w.lo \div 256, w.lo % 256>>

----------------------------------------------------------------------------
(* Properties *)

\* C1: parsing the text the formatter produced for a Guid succeeds and yields
\* a Guid equal to it in all four fields.
C1_RoundTrip ==
    (parsed.done /\ Formatted) => (Returned /\ SameFields(parsed.guid, g))

C1_Witness ==
    /\ parsed.done /\ Formatted /\ Returned
    /\ g.data1 = [hi |-> 291, lo |-> 17767]
    /\ parsed.guid = g

\* C2: a 36-byte input with a non-hyphen at index 8, 13, 18 or 23, or a byte
\* that is not a hexadecimal digit at any other index, is rejected and no
\* Guid is returned.
C2_MalformedRejected ==
    (parsed.done /\ Len(text) = 36 /\ ~WellFormed(text))
        => (~parsed.ok /\ parsed.panic = "Invalid GUID string" /\ parsed.guid = NoGuid)

\* a hexadecimal digit at separator index 8, everything else well-formed
C2_Witness ==
    /\ parsed.done /\ Len(text) = 36
    /\ text[9] = 102
    /\ WellFormed([text EXCEPT ![9] = 45])
    /\ ~parsed.ok

\* C3: an input whose length is not 36 is rejected before any byte is read
\* and no Guid is returned.
C3_LengthRejected ==
    (parsed.done /\ Len(text) # 36)
        => (/\ ~parsed.ok
            /\ parsed.panic = "Invalid GUID string"
            /\ parsed.pos = 0
            /\ parsed.guid = NoGuid)

\* 37 bytes whose first 36 are a well-formed text
C3_Witness ==
    /\ parsed.done /\ Len(text) = 37
    /\ WellFormed(SubSeq(text, 1, 36))
    /\ ~parsed.ok /\ parsed.pos = 0

\* C4: a well-formed input parses to the Guid whose fields are the values of
\* its digit groups read most significant digit first: data1 from indices
\* 0-7, data2 from 9-12, data3 from 14-17, data4 from the pairs at 19, 21,
\* 24, 26, 28, 30, 32, 34.
C4_FieldsFromDigits ==
    (parsed.done /\ WellFormed(text))
        => (Returned /\ SameFields(parsed.guid, Denoted(text)))

\* a well-formed input that is not the formatter's output (a lower-case letter)
C4_Witness ==
    /\ parsed.done /\ WellFormed(text) /\ Returned
    /\ edits > 0
    /\ \E i \in 1..36 : text[i] \in 97..102
    /\ parsed.guid.data2 = 35243

\* C5: a Guid made by from_signature has 0101 in the top four bits of data3
\* and 10 in the top two bits of data4[0]; the low 12 bits of data3 and the
\* low 6 bits of data4[0] are the digest's bits.
C5_VersionVariant ==
    Derived =>
        /\ g.data3 \div 4096 = 5
        /\ g.data4[1] \div 64 = 2
        /\ g.data3 % 4096 = digest[2].lo % 4096
        /\ g.data4[1] % 64 = WordBytes(digest[3])[1] % 64

\* the digest's own bits there are 1111 and 11
C5_Witness ==
    /\ op = "from_signature"
    /\ digest[2].lo \div 4096 = 15
    /\ WordBytes(digest[3])[1] \div 64 = 3
    /\ g.data3 = 20493
    /\ g.data4[1] = 191

\* C6: for a non-empty signature, data1 of from_signature is the first byte
\* of the signature, whatever the digest and the other bytes are.
C6_FirstByte ==
    (Derived /\ sig # <<>>) => (g.data1 = [hi |-> 0, lo |-> sig[1]])

C6_Witness ==
    /\ op = "from_signature"
    /\ Len(sig) > 1
    /\ sig[1] = 112
    /\ digest[1] = [hi |-> 57005, lo |-> 48879]
    /\ g.data1 = [hi |-> 0, lo |-> 112]

\* C7 as stated: with the digest words numbered 0 to 4, data2 and data3 come
\* from word 2, data4[0..4] from word 3 and data4[4..8] from word 4.
C7_AsStated ==
    Derived =>
        /\ g.data2 = digest[3].hi
        /\ g.data3 % 4096 = digest[3].lo % 4096
        /\ g.data4[1] % 64 = WordBytes(digest[4])[1] % 64
        /\ SubSeq(g.data4, 2, 4) = SubSeq(WordBytes(digest[4]), 2, 4)
        /\ SubSeq(g.data4, 5, 8) = WordBytes(digest[5])

\* C7: with the digest words numbered 0 to 4, data2 is the high 16 bits of
\* word 1, data3 (below the version bits) the low 16 bits of word 1,
\* data4[0..4] the bytes of word 2 (data4[0] below the variant bits) and
\* data4[4..8] the bytes of word 3, unmodified; words 0 and 4 are not used.
C7_WordsOneToThree ==
    Derived =>
        /\ g.data2 = digest[2].hi
        /\ g.data3 % 4096 = digest[2].lo % 4096
        /\ g.data4[1] % 64 = WordBytes(digest[3])[1] % 64
        /\ SubSeq(g.data4, 2, 4) = SubSeq(WordBytes(digest[3]), 2, 4)
        /\ SubSeq(g.data4, 5, 8) = WordBytes(digest[4])

\* the digest 00 01 02 .. 13, whose bytes are all different
C7_Witness ==
    /\ op = "from_signature"
    /\ digest[1] = [hi |-> 1, lo |-> 515]
    /\ g.data2 = 1029
    /\ g.data3 = 22023
    /\ g.data4 = <<136, 9, 10, 11, 12, 13, 14, 15>>

\* C8: the formatter's output has 36 bytes, hyphens at indices 8, 13, 18 and
\* 23, digits 0-9 and upper-case A-F elsewhere, and its digit groups are the
\* fields zero-padded to 8, 4, 4, 4 and 12 digits; zeroed() gives
\* 00000000-0000-0000-0000-000000000000.
C8_FormatShape ==
    (op = "fmt") =>
        /\ Len(text) = 36
        /\ \A i \in 0..35 :
              IF i \in SeparatorIndices THEN text[i + 1] = 45
              ELSE text[i + 1] \in (48..57) \cup (65..70)
        /\ SameFields(Denoted(text), g)
        /\ (g = zeroed) =>
              text = [i \in 1..36 |-> IF (i - 1) \in SeparatorIndices THEN 45 ELSE 48]

\* 0000000A-000C-0D00-FEDC-BA9876543210: padding and upper-case letters
C8_Witness ==
    /\ op = "fmt"
    /\ g.data2 = 12
    /\ SubSeq(text, 1, 18) =
          <<48, 48, 48, 48, 48, 48, 48, 65, 45, 48, 48, 48, 67, 45, 48, 68, 48, 48>>

\* C9: formatting the Guid parsed from an accepted input gives the input with
\* its letters a-f replaced by A-F; so an accepted input and the formatted
\* text it was made from parse to equal Guids exactly when they differ only
\* in the case of letters.
C9_CaseInsensitive ==
    /\ (op = "fmt_parsed") => (echo = ToUpper(text))
    /\ (parsed.done /\ parsed.ok /\ g # NoGuid /\ From(fmt(g)).ok)
          => (SameFields(parsed.guid, From(fmt(g)).guid)
                 <=> ToUpper(text) = ToUpper(fmt(g)))

C9_Witness ==
    /\ op = "fmt_parsed"
    /\ \E i \in 1..Len(text) : text[i] \in 97..102
    /\ echo # text
    /\ echo = ToUpper(text)
    /\ parsed.guid = g

\* C10: on a well-formed input no step of the parser's arithmetic leaves its
\* integer width and the parser reads exactly the 36 bytes of the input; on
\* no input does it read past the end.
C10_NoOverflow ==
    /\ (parsed.done /\ WellFormed(text))
          => (parsed.ok /\ ~parsed.ovf /\ parsed.pos = 36 /\ parsed.pos = Len(text))
    /\ parsed.done
          => (parsed.pos <= Len(text)
                 /\ parsed.panic # "called Option::unwrap() on a None value")

\* FFFFFFFF-FFFF-FFFF-FFFF-FFFFFFFFFFFF: every group at its largest value
C10_Witness ==
    /\ parsed.done /\ WellFormed(text)
    /\ \A i \in 0..35 : i \notin SeparatorIndices => text[i + 1] = 70
    /\ parsed.ok /\ ~parsed.ovf
    /\ parsed.guid.data1 = [hi |-> 65535, lo |-> 65535]

====
